---- MODULE Spec2Model ----
(***************************************************************************)
(* Two command-line tools of the repository, each as a state machine:      *)
(*   ansible-data-conversion.py  the inventory walk (parse_group) over     *)
(*                               the input files, filling four tables;     *)
(*   site-checker.py             the check loop over the site catalog.     *)
(* SpecInv is the first program, SpecSite the second.                      *)
(***************************************************************************)
EXTENDS Integers, Sequences, FiniteSets, TLC

VARIABLES
    \* ---- ansible-data-conversion.py ----
    ansible_hosts,      \* list of host names
    ansible_groups,     \* dict group -> list of members
    ansible_hostvars,   \* dict host -> dict var -> value
    ansible_groupvars,  \* dict group -> dict var -> value
    ansible_data,       \* the document of the input file being parsed
    input_files,        \* how many input files conf['ANSIBLE_DATA_FILE'] names
    file_no,            \* how many of them have been loaded
    data_item,          \* position of the top-level loop in ansible_data
    stack,              \* the active parse_group calls, innermost last
    ipc,                \* "main", "done", or "crashed" (uncaught exception)
    seen_hosts,         \* history: every host some `hosts` list iteration visited
    seen_groups,        \* history: every group name parse_group was called on
    var_log,            \* history: the `hostvars` and `vars` entries visited, in order
    \* ---- site-checker.py ----
    arglist,            \* the command-line arguments not yet parsed
    conf,               \* conf: VERBOSE, the seven ...ONLY counters, MODE
    site_input_list,    \* the site names given on the command line
    sites_data,         \* sites_data["sites"]: site -> environment -> record
    site_i,             \* position of the loop over the sites
    env_i,              \* position of the loop over the environments of the site
    server_i,           \* position of the loop over record['servers']
    hostname,           \* hostname of the environment being checked
    short_hostname,     \* its short_hostname
    spc,                \* where the program stands; "done", "crashed" at its end
    exc,                \* the uncaught exception that ended the program, if any
    requests,           \* history: every request handed to check_http or wget
    visited,            \* history: the (site, environment) pairs whose check began
    completed,          \* history: the pairs whose check ran to its last flag
    \* ---- one call of a check_http_... function of site-checker.py ----
    cmd_output,         \* what the check_http command printed (stream.read())
    executor,           \* the function called on it, "" before the call
    result              \* what the call returned, or the exception it raised

ivars == <<ansible_hosts, ansible_groups, ansible_hostvars, ansible_groupvars,
           ansible_data, input_files, file_no, data_item, stack, ipc,
           seen_hosts, seen_groups, var_log>>

svars == <<arglist, conf, site_input_list, sites_data, site_i, env_i, server_i,
           hostname, short_hostname, spc, exc, requests, visited, completed>>

xvars == <<cmd_output, executor, result>>

(* Each program runs alone: the other one's variables rest. *)
IdleInv ==
    /\ ansible_hosts = <<>> /\ ansible_groups = <<>> /\ ansible_hostvars = <<>>
    /\ ansible_groupvars = <<>> /\ ansible_data = <<>> /\ input_files = 0
    /\ file_no = 0 /\ data_item = 1 /\ stack = <<>> /\ ipc = "idle"
    /\ seen_hosts = {} /\ seen_groups = {} /\ var_log = <<>>
IdleExec == cmd_output = <<>> /\ executor = "idle" /\ result = <<>>
IdleSite ==
    /\ arglist = <<>> /\ conf = <<>> /\ site_input_list = <<>> /\ sites_data = <<>>
    /\ site_i = 1 /\ env_i = 1 /\ server_i = 1 /\ hostname = <<>>
    /\ short_hostname = <<>> /\ spc = "idle" /\ exc = "" /\ requests = <<>>
    /\ visited = {} /\ completed = {}

----------------------------------------------------------------------------
(* Bounds of the inventory inputs. *)

MaxHosts == 2       \* longest `hosts` list
MaxFiles == 2       \* most input files (-i) of a run

Hosts == {"h1", "h2"}
TopNames == {"g1", "g2"}
SubNames == {"g2", "g3"}
VarNames == {"a", "b"}
Values == {1, 2, 3}

(* A JSON mapping is a sequence of entries in document order, keys distinct; *)
(* a JSON value that stands where a group is expected is a node: a mapping,  *)
(* null (not iterable), or an empty string (iterable, nothing in it).        *)
E(k, v) == [key |-> k, val |-> v]
Map(items) == [k |-> "map", v |-> items]
Null == [k |-> "null", v |-> <<>>]
EmptyStr == [k |-> "empty", v |-> <<>>]

Keys(m) == {m[x].key : x \in 1..Len(m)}
HasKey(m, k) == k \in Keys(m)
Get(m, k) == m[CHOOSE x \in 1..Len(m) : m[x].key = k].val

SeqsUpTo(S, n) == UNION {[1..l -> S] : l \in 0..n}

HostLists == SeqsUpTo(Hosts, MaxHosts)

(* Ordered mappings var -> value and host -> (var -> value). *)
VarMaps ==
    {<<>>}
    \cup {<<E(n, x)>> : n \in VarNames, x \in Values}
    \cup {<<E(n[1], x), E(n[2], y)>> :
            n \in {<<"a", "b">>, <<"b", "a">>}, x \in Values, y \in Values}
HostVarMaps ==
    {<<>>}
    \cup {<<E(h, m)>> : h \in Hosts, m \in VarMaps}
    \cup {<<E("h1", <<E("a", x)>>), E("h2", m)>> :
            x \in Values, m \in {<<>>, <<E("a", 1)>>, <<E("b", 2)>>}}

(* Groups with no subgroup: at most a `hosts` list. *)
FlatNodes == {Map(<<>>)} \cup {Map(<<E("hosts", l)>>) : l \in HostLists}

(* Groups carrying variables, with or without a short `hosts` list. *)
VarEntries ==
    {E("vars", m) : m \in VarMaps}
    \cup {E("hostvars", m) : m \in HostVarMaps}
    \cup {E("groupvars", m) : m \in {<<>>, <<E("a", 1)>>}}
VarNodes ==
    {Map(<<e>>) : e \in VarEntries}
    \cup {Map(<<E("hosts", <<"h1", "h2">>), e>>) : e \in VarEntries}
    \cup {Map(<<E("groupvars", <<E("a", 1)>>), E("hosts", <<"h1", "h2">>)>>),
          Map(<<E("vars", <<E("a", 1)>>), E("hostvars", <<E("h1", <<E("a", 2)>>)>>)>>)}

VarSeconds ==
    {Map(<<E("vars", <<E("a", 2), E("b", 3)>>)>>),
     Map(<<E("hostvars", <<E("h1", <<E("a", 2), E("b", 3)>>)>>)>>),
     Map(<<E("hosts", <<"h2", "h1">>), E("hostvars", <<E("h2", <<E("b", 2)>>)>>)>>)}

(* What a subgroup can be: well-formed leaves, and values that are no group. *)
SubLeaves ==
    {Map(<<>>), Map(<<E("hosts", <<"h1">>)>>), Map(<<E("hosts", <<"h1", "h2">>)>>),
     Map(<<E("vars", <<E("a", 1)>>)>>), Map(<<E("groupvars", <<E("a", 1)>>)>>),
     Map(<<E("hosts", <<"h1", "h2">>), E("groupvars", <<E("a", 1)>>)>>),
     Null, EmptyStr}
InnerNodes ==
    SubLeaves
    \cup {Map(<<E(g, n)>>) : g \in {"g3"}, n \in {Map(<<E("hosts", <<"h2", "h1">>)>>), Null}}
    \cup {Map(<<E("children", <<E("g3", n)>>), E("hosts", <<"h2", "h1">>)>>) :
            n \in {Map(<<E("hosts", <<"h1", "h2">>)>>), Null}}
ChildMaps ==
    {<<>>}
    \cup {<<E(g, n)>> : g \in SubNames, n \in InnerNodes}
    \cup {<<E(g[1], n), E(g[2], m)>> :
            g \in {<<"g2", "g3">>, <<"g3", "g2">>}, n \in InnerNodes,
            m \in {Map(<<>>), Map(<<E("hosts", <<"h1", "h2">>)>>), Null}}
NestedNodes ==
    {Map(<<E("children", c)>>) : c \in ChildMaps}
    \cup {Map(<<E("children", c), E("hosts", <<"h1", "h2">>)>>) : c \in ChildMaps}
    \cup {Map(<<E("hosts", <<"h1", "h2">>), E("children", c)>>) : c \in ChildMaps}
    \cup {Map(<<E(g, n)>>) : g \in SubNames, n \in InnerNodes}
    \cup {Map(<<E(g, n), E("hosts", <<"h1", "h2">>)>>) : g \in SubNames, n \in InnerNodes}

(* Documents: mappings top-level group name -> node. *)
DocsOf(First, Second) ==
    {<<E(g, n)>> : g \in TopNames, n \in First}
    \cup {<<E(g[1], n), E(g[2], m)>> :
            g \in {<<"g1", "g2">>, <<"g2", "g1">>}, n \in First, m \in Second}
    \cup {<<E(g[1], m), E(g[2], n)>> :
            g \in {<<"g1", "g2">>, <<"g2", "g1">>}, n \in First, m \in Second}
Docs ==
    {<<>>}
    \cup DocsOf(FlatNodes, FlatNodes \cup {Null, EmptyStr})
    \cup DocsOf(VarNodes, VarSeconds)
    \cup DocsOf(NestedNodes, {Map(<<E("hosts", <<"h1", "h2">>)>>), Null})
    \cup DocsOf({Null, EmptyStr}, {Null})

(* A run over several input files takes each from these one-group documents. *)
PartDocs ==
    {<<E("g1", Map(<<E("hosts", l)>>))>> : l \in HostLists}
    \cup {<<E("g1", Map(<<E("vars", m)>>))>> :
            m \in {<<E("a", 1)>>, <<E("a", 2), E("b", 3)>>}}
    \cup {<<E("g2", Map(<<E("hostvars", <<E("h1", m)>>)>>))>> :
            m \in {<<E("a", 1)>>, <<E("a", 2), E("b", 3)>>}}

----------------------------------------------------------------------------
(* Python dicts as functions. *)

EmptyDict == <<>>
Put(d, k, v) == [x \in DOMAIN d \cup {k} |-> IF x = k THEN v ELSE d[x]]
InList(x, l) == \E n \in 1..Len(l) : l[n] = x

----------------------------------------------------------------------------
(* parse_group, one loop iteration per step.  A frame is one active call:   *)
(* its arguments, the position i of `for item_type in data_hash`, the       *)
(* position j of the inner loop of that key, and whether the call stands    *)
(* inside the try/except of the `children` branch.                          *)

Frame(g, n, t) == [group_name |-> g, data_hash |-> n, i |-> 1, j |-> 1, try |-> t]
Top == stack[Len(stack)]
Items(f) == f.data_hash.v
AtKey(f) == Len(stack) > 0 /\ f.data_hash.k = "map" /\ f.i <= Len(Items(f))
Item(f) == Items(f)[f.i]
Recognized == {"hosts", "children", "hostvars", "groupvars", "vars"}
SetTop(f) == [stack EXCEPT ![Len(stack)] = f]

(* line 79 *)
AddHostAlways(hosts, host) == Append(hosts, host)
AddHost(hosts, host) ==
    IF InList(host, hosts) THEN hosts ELSE Append(hosts, host)

(* lines 80-81 *)
AddMember(groups, group_name, host) ==
    IF group_name \in DOMAIN groups
    THEN Put(groups, group_name, Append(groups[group_name], host))
    ELSE Put(groups, group_name, <<>>)

(* lines 85-86 *)
AddSubGroup(groups, group_name, sub_group) ==
    LET g == IF group_name \notin DOMAIN groups
             THEN Put(groups, group_name, <<>>) ELSE groups
    IN  Put(g, group_name, Append(g[group_name], sub_group))

(* SetHostvars with lines 99-100 taken on every variable: the host's dict is *)
(* made anew each time, so only the variable set last survives.              *)
SetHostvarsFresh(hostvars, host, varmap, n) ==
    IF Len(varmap) = 0 THEN hostvars
    ELSE Put(hostvars, host,
             Put(EmptyDict, varmap[Len(varmap)].key, varmap[Len(varmap)].val))

(* lines 94-100: the loop over the variables of one host, from the n-th on *)
RECURSIVE SetHostvars(_, _, _, _)
SetHostvars(hostvars, host, varmap, n) ==
    IF n > Len(varmap) THEN hostvars
    ELSE LET cur == IF host \in DOMAIN hostvars THEN hostvars[host] ELSE EmptyDict
         IN  SetHostvars(Put(hostvars, host, Put(cur, varmap[n].key, varmap[n].val)),
                         host, varmap, n + 1)

(* lines 108-109 *)
SetGroupvar(groupvars, group_name, groupvar, value) ==
    LET g == IF group_name \notin DOMAIN groupvars
             THEN Put(groupvars, group_name, EmptyDict) ELSE groupvars
    IN  Put(g, group_name, Put(g[group_name], groupvar, value))

(* An exception leaves every call up to the innermost one made inside the   *)
(* try of line 87; with none, it leaves the program.                        *)
Catchers(s) == {n \in 1..Len(s) : s[n].try}
Handled(s) == Catchers(s) # {}
UnwoundWithCaller(s) ==
    LET n == CHOOSE x \in Catchers(s) : \A y \in Catchers(s) : y <= x
    IN  SubSeq(s, 1, n - 2)
Unwound(s) ==
    LET n == CHOOSE x \in Catchers(s) : \A y \in Catchers(s) : y <= x
    IN  SubSeq(s, 1, n - 1)

Throw ==
    /\ stack' = IF Handled(stack) THEN Unwound(stack) ELSE <<>>
    /\ ipc' = IF Handled(stack) THEN ipc ELSE "crashed"
    /\ UNCHANGED <<ansible_hosts, ansible_groups, ansible_hostvars, ansible_groupvars,
                   ansible_data, input_files, file_no, data_item, seen_hosts, seen_groups, var_log>>

(* lines 146-152: the next input file is loaded *)
LoadFile ==
    /\ UNCHANGED <<svars, xvars>>
    /\ ipc = "main" /\ stack = <<>> /\ data_item > Len(ansible_data)
    /\ file_no < input_files
    /\ \E d \in (IF input_files = 1 THEN Docs ELSE PartDocs) : ansible_data' = d
    /\ file_no' = file_no + 1
    /\ data_item' = 1
    /\ UNCHANGED <<ansible_hosts, ansible_groups, ansible_hostvars, ansible_groupvars,
                   input_files, stack, ipc, seen_hosts, seen_groups, var_log>>

(* lines 160-161 *)
ParseTopLevel ==
    /\ UNCHANGED <<svars, xvars>>
    /\ ipc = "main" /\ stack = <<>> /\ data_item <= Len(ansible_data)
    /\ stack' = <<Frame(ansible_data[data_item].key, ansible_data[data_item].val, FALSE)>>
    /\ seen_groups' = seen_groups \cup {ansible_data[data_item].key}
    /\ data_item' = data_item + 1
    /\ UNCHANGED <<ansible_hosts, ansible_groups, ansible_hostvars, ansible_groupvars,
                   ansible_data, input_files, file_no, ipc, seen_hosts, var_log>>

(* line 75 on a value that cannot be iterated *)
IterateNull ==
    /\ UNCHANGED <<svars, xvars>>
    /\ ipc = "main" /\ Len(stack) > 0 /\ Top.data_hash.k = "null"
    /\ Throw

(* lines 76-81, one host *)
VisitHost ==
    /\ UNCHANGED <<svars, xvars>>
    /\ ipc = "main" /\ AtKey(Top) /\ Item(Top).key = "hosts"
    /\ Top.j <= Len(Item(Top).val)
    /\ LET host == Item(Top).val[Top.j] IN
        /\ ansible_hosts' = AddHost(ansible_hosts, host)
        /\ ansible_groups' = AddMember(ansible_groups, Top.group_name, host)
        /\ seen_hosts' = seen_hosts \cup {host}
    /\ stack' = SetTop([Top EXCEPT !.j = @ + 1])
    /\ UNCHANGED <<ansible_hostvars, ansible_groupvars, ansible_data, input_files,
                   file_no, data_item, ipc, seen_groups, var_log>>

(* lines 82-90, one sub_group: recorded as a member, then parsed inside try *)
VisitChild ==
    /\ UNCHANGED <<svars, xvars>>
    /\ ipc = "main" /\ AtKey(Top) /\ Item(Top).key = "children"
    /\ Top.j <= Len(Item(Top).val)
    /\ LET sub == Item(Top).val[Top.j] IN
        /\ ansible_groups' = AddSubGroup(ansible_groups, Top.group_name, sub.key)
        /\ stack' = Append(SetTop([Top EXCEPT !.j = @ + 1]), Frame(sub.key, sub.val, TRUE))
        /\ seen_groups' = seen_groups \cup {sub.key}
    /\ UNCHANGED <<ansible_hosts, ansible_hostvars, ansible_groupvars, ansible_data,
                   input_files, file_no, data_item, ipc, seen_hosts, var_log>>

(* lines 91-100, one host of a `hostvars` mapping *)
VisitHostvars ==
    /\ UNCHANGED <<svars, xvars>>
    /\ ipc = "main" /\ AtKey(Top) /\ Item(Top).key = "hostvars"
    /\ Top.j <= Len(Item(Top).val)
    /\ LET hv == Item(Top).val[Top.j] IN
        ansible_hostvars' = SetHostvars(ansible_hostvars, hv.key, hv.val, 1)
    /\ stack' = SetTop([Top EXCEPT !.j = @ + 1])
    /\ var_log' = Append(var_log, [table |-> "hostvars", owner |-> Item(Top).val[Top.j].key,
                                 varmap |-> Item(Top).val[Top.j].val])
    /\ UNCHANGED <<ansible_hosts, ansible_groups, ansible_groupvars, ansible_data,
                   input_files, file_no, data_item, ipc, seen_hosts, seen_groups>>

(* lines 101-104: the first iteration reads the undefined name               *)
(* ansible_groupvar (the table is ansible_groupvars) and raises NameError    *)
VisitGroupvars ==
    /\ UNCHANGED <<svars, xvars>>
    /\ ipc = "main" /\ AtKey(Top) /\ Item(Top).key = "groupvars"
    /\ Len(Item(Top).val) > 0
    /\ Throw

(* lines 105-109, one variable *)
VisitVars ==
    /\ UNCHANGED <<svars, xvars>>
    /\ ipc = "main" /\ AtKey(Top) /\ Item(Top).key = "vars"
    /\ Top.j <= Len(Item(Top).val)
    /\ LET gv == Item(Top).val[Top.j] IN
        ansible_groupvars' = SetGroupvar(ansible_groupvars, Top.group_name, gv.key, gv.val)
    /\ stack' = SetTop([Top EXCEPT !.j = @ + 1])
    /\ var_log' = Append(var_log, [table |-> "groupvars", owner |-> Top.group_name,
                                 varmap |-> <<Item(Top).val[Top.j]>>])
    /\ UNCHANGED <<ansible_hosts, ansible_groups, ansible_hostvars, ansible_data,
                   input_files, file_no, data_item, ipc, seen_hosts, seen_groups>>

(* lines 110-112: any other key names a nested group, parsed outside any try *)
VisitOther ==
    /\ UNCHANGED <<svars, xvars>>
    /\ ipc = "main" /\ AtKey(Top) /\ Item(Top).key \notin Recognized
    /\ stack' = Append(SetTop([Top EXCEPT !.i = @ + 1]),
                       Frame(Item(Top).key, Item(Top).val, FALSE))
    /\ seen_groups' = seen_groups \cup {Item(Top).key}
    /\ UNCHANGED <<ansible_hosts, ansible_groups, ansible_hostvars, ansible_groupvars,
                   ansible_data, input_files, file_no, data_item, ipc, seen_hosts, var_log>>

(* the inner loop of a recognized key is exhausted: on to the next key *)
NextKey ==
    /\ UNCHANGED <<svars, xvars>>
    /\ ipc = "main" /\ AtKey(Top) /\ Item(Top).key \in Recognized
    /\ Top.j > Len(Item(Top).val)
    /\ stack' = SetTop([Top EXCEPT !.i = @ + 1, !.j = 1])
    /\ UNCHANGED <<ansible_hosts, ansible_groups, ansible_hostvars, ansible_groupvars,
                   ansible_data, input_files, file_no, data_item, ipc, seen_hosts,
                   seen_groups, var_log>>

(* line 115 *)
Return ==
    /\ UNCHANGED <<svars, xvars>>
    /\ ipc = "main" /\ Len(stack) > 0 /\ Top.data_hash.k # "null"
    /\ Top.i > Len(Items(Top))
    /\ stack' = SubSeq(stack, 1, Len(stack) - 1)
    /\ UNCHANGED <<ansible_hosts, ansible_groups, ansible_hostvars, ansible_groupvars,
                   ansible_data, input_files, file_no, data_item, ipc, seen_hosts,
                   seen_groups, var_log>>

(* lines 163-206: all files parsed; the output modes read the tables *)
Finish ==
    /\ UNCHANGED <<svars, xvars>>
    /\ ipc = "main" /\ stack = <<>> /\ data_item > Len(ansible_data)
    /\ file_no = input_files
    /\ ipc' = "done"
    /\ UNCHANGED <<ansible_hosts, ansible_groups, ansible_hostvars, ansible_groupvars,
                   ansible_data, input_files, file_no, data_item, stack, seen_hosts,
                   seen_groups, var_log>>

InitInv ==
    /\ IdleSite /\ IdleExec
    /\ ansible_hosts = <<>>
    /\ ansible_groups = EmptyDict
    /\ ansible_hostvars = EmptyDict
    /\ ansible_groupvars = EmptyDict
    /\ ansible_data = <<>>
    /\ input_files \in 0..MaxFiles
    /\ file_no = 0
    /\ data_item = 1
    /\ stack = <<>>
    /\ ipc = "main"
    /\ seen_hosts = {}
    /\ seen_groups = {}
    /\ var_log = <<>>

NextInv ==
    \/ LoadFile
    \/ ParseTopLevel
    \/ IterateNull
    \/ VisitHost
    \/ VisitChild
    \/ VisitHostvars
    \/ VisitGroupvars
    \/ VisitVars
    \/ VisitOther
    \/ NextKey
    \/ Return
    \/ Finish


----------------------------------------------------------------------------
(* Properties of the inventory walk. *)

(* The run had one input file and every top-level group of it was parsed. *)
ParsedAll == input_files = 1 /\ file_no = 1 /\ ipc = "done"

IsGroup(n) == n.k = "map"
HostsOf(n) == IF HasKey(n.v, "hosts") THEN Get(n.v, "hosts") ELSE <<>>
FlatGroup(n) == IsGroup(n) /\ Keys(n.v) \subseteq (Recognized \ {"children"})
FlatDoc(d) == \A x \in 1..Len(d) : FlatGroup(d[x].val)
Count(x, l) == Cardinality({n \in 1..Len(l) : l[n] = x})

(* C1: for a document whose top-level groups have no `children` and no      *)
(* nested-group key, once every top-level group is parsed, ansible_groups   *)
(* is keyed exactly by the top-level group names and maps each to its       *)
(* literal `hosts` list, every host included, in listed order.              *)
C1_GroupsAreHostLists ==
    (ParsedAll /\ FlatDoc(ansible_data)) =>
        /\ DOMAIN ansible_groups = Keys(ansible_data)
        /\ \A x \in 1..Len(ansible_data) :
              ansible_groups[ansible_data[x].key] = HostsOf(ansible_data[x].val)

(* C2: a host listed under `hosts` of two different groups, at any position *)
(* of either list, is once in ansible_hosts and a member of both groups.    *)
C2_SharedHostInBothGroups ==
    ParsedAll =>
        \A x, y \in 1..Len(ansible_data) : \A h \in Hosts :
            (/\ x # y
             /\ IsGroup(ansible_data[x].val) /\ IsGroup(ansible_data[y].val)
             /\ InList(h, HostsOf(ansible_data[x].val))
             /\ InList(h, HostsOf(ansible_data[y].val)))
            => /\ Count(h, ansible_hosts) = 1
               /\ ansible_data[x].key \in DOMAIN ansible_groups
               /\ InList(h, ansible_groups[ansible_data[x].key])
               /\ ansible_data[y].key \in DOMAIN ansible_groups
               /\ InList(h, ansible_groups[ansible_data[y].key])

(* The visits var_log records for one owner of one table, and what they     *)
(* say: the names ever seen, and for a name the value of its last visit.    *)
Visits(t, o) == {x \in 1..Len(var_log) : var_log[x].table = t /\ var_log[x].owner = o}
NamesSeen(t, o) == UNION {Keys(var_log[x].varmap) : x \in Visits(t, o)}
LastVisit(t, o, n) ==
    CHOOSE x \in Visits(t, o) :
        /\ HasKey(var_log[x].varmap, n)
        /\ \A y \in Visits(t, o) : HasKey(var_log[y].varmap, n) => y <= x
ValueSeenLast(t, o, n) == Get(var_log[LastVisit(t, o, n)].varmap, n)
Owners(t) == {var_log[x].owner : x \in 1..Len(var_log)}
LastWriterWins(t, tbl) ==
    /\ DOMAIN tbl = {o \in Owners(t) : NamesSeen(t, o) # {}}
    /\ \A o \in DOMAIN tbl :
          /\ DOMAIN tbl[o] = NamesSeen(t, o)
          /\ \A n \in DOMAIN tbl[o] : tbl[o][n] = ValueSeenLast(t, o, n)

(* C3: after any sequence of visited `hostvars` entries for a host (`vars`  *)
(* entries for a group), the table maps each variable name ever seen for    *)
(* that owner to the value seen last, and holds no other name.              *)
C3_LastWriterWins ==
    /\ LastWriterWins("hostvars", ansible_hostvars)
    /\ LastWriterWins("groupvars", ansible_groupvars)

(* {a: 1} then {a: 2, b: 3} were visited for h1, and the table says {a: 2, b: 3} *)
C3_Witness ==
    /\ \E x, y \in Visits("hostvars", "h1") :
          /\ x < y
          /\ var_log[x].varmap = <<E("a", 1)>>
          /\ var_log[y].varmap = <<E("a", 2), E("b", 3)>>
          /\ y = Len(var_log)
    /\ "h1" \in DOMAIN ansible_hostvars
    /\ ansible_hostvars["h1"] = [n \in {"a", "b"} |-> IF n = "a" THEN 2 ELSE 3]

(* C9: with one well-formed and one malformed top-level group, in either    *)
(* order, the run does not abort and ends with complete, correct tables     *)
(* for the well-formed group.                                               *)
OneGoodOneBad(d) ==
    /\ Len(d) = 2
    /\ \E x, y \in 1..2 : x # y /\ FlatGroup(d[x].val) /\ ~IsGroup(d[y].val)
C9_MalformedGroupIsolated ==
    (input_files = 1 /\ file_no = 1 /\ OneGoodOneBad(ansible_data)) =>
        /\ ipc # "crashed"
        /\ ipc = "done" =>
              \A x \in 1..2 : FlatGroup(ansible_data[x].val) =>
                  /\ ansible_data[x].key \in DOMAIN ansible_groups
                  /\ ansible_groups[ansible_data[x].key] = HostsOf(ansible_data[x].val)
                  /\ \A h \in Hosts :
                        InList(h, HostsOf(ansible_data[x].val)) => InList(h, ansible_hosts)

(* C11: once the walk is over, ansible_groups has a key for every group     *)
(* name parse_group was called on: top-level groups, `children` subgroups   *)
(* and groups reached through an unrecognized key, hosts or no hosts.       *)
C11_EveryGroupHasKey ==
    ipc = "done" => seen_groups \subseteq DOMAIN ansible_groups

(* C12: in every state of the walk, over one file or several, ansible_hosts *)
(* holds no host twice and holds every host some `hosts` list iteration has *)
(* visited, the first host of a list included.                              *)
C12_HostsDeduplicated ==
    /\ \A h \in Hosts : Count(h, ansible_hosts) <= 1
    /\ {ansible_hosts[x] : x \in 1..Len(ansible_hosts)} = seen_hosts
(* two files list h1, h2 under g1: four visits (g1 got three members, the   *)
(* first visit makes the key), two hosts                                    *)
C12_Witness ==
    /\ file_no = 2 /\ ipc = "done"
    /\ ansible_hosts = <<"h1", "h2">>
    /\ "g1" \in DOMAIN ansible_groups
    /\ ansible_groups["g1"] = <<"h2", "h1", "h2">>

(* The innermost call of the walk is about to raise: it iterates a value    *)
(* that is no mapping, or it reads the first entry of a `groupvars`.        *)
Failing ==
    /\ ipc = "main" /\ Len(stack) > 0
    /\ \/ Top.data_hash.k = "null"
       \/ AtKey(Top) /\ Item(Top).key = "groupvars" /\ Len(Item(Top).val) > 0
Tables == <<ansible_hosts, ansible_groups, ansible_hostvars, ansible_groupvars>>
InnermostTry == CHOOSE x \in 1..Len(stack) : stack[x].try /\ \A y \in x + 1..Len(stack) : ~stack[y].try

(* C15: at a `children` key of g each subgroup name is appended to          *)
(* ansible_groups[g] before the call on it; when that call fails inside, the *)
(* failure is swallowed: the tables stay as the failed subtree left them    *)
(* (the subgroup name included), and the walk stands in g again, at the     *)
(* sibling after the failed subgroup, with the later keys of g to follow.   *)
C15_Appended ==
    (ipc = "main" /\ AtKey(Top) /\ Item(Top).key = "children" /\ stack' # stack
        /\ Top.j <= Len(Item(Top).val)) =>
        LET sub == Item(Top).val[Top.j].key
            g == Top.group_name
        IN  /\ g \in DOMAIN ansible_groups'
            /\ ansible_groups'[g] =
                 (IF g \in DOMAIN ansible_groups THEN ansible_groups[g] ELSE <<>>) \o <<sub>>
            /\ Len(stack') = Len(stack) + 1
            /\ stack'[Len(stack')].group_name = sub
            /\ stack'[Len(stack')].i = 1
C15_Swallowed ==
    (Failing /\ (\E x \in 1..Len(stack) : stack[x].try) /\ stack' # stack) =>
        LET n == InnermostTry
            parent == stack[n - 1]
        IN  /\ Tables' = Tables
            /\ ipc' = "main"
            /\ stack' = SubSeq(stack, 1, n - 1)
            /\ parent.data_hash.v[parent.i].key = "children"
            /\ parent.data_hash.v[parent.i].val[parent.j - 1].key = stack[n].group_name
            /\ InList(stack[n].group_name, ansible_groups'[parent.group_name])
C15_ChildFailureSwallowed ==
    [][C15_Appended /\ C15_Swallowed]_<<ivars, svars, xvars>>
(* g2 fails at its groupvars after its hosts were recorded; g3 and the      *)
(* hosts of g1 are done all the same                                        *)
C15_Witness ==
    /\ ipc = "done" /\ input_files = 1
    /\ ansible_data =
         <<E("g1", Map(<<E("children",
                           <<E("g2", Map(<<E("hosts", <<"h1", "h2">>),
                                           E("groupvars", <<E("a", 1)>>)>>)),
                             E("g3", Map(<<E("hosts", <<"h1", "h2">>)>>))>>),
                         E("hosts", <<"h1", "h2">>)>>))>>
    /\ ansible_groups = [g \in {"g1", "g2", "g3"} |->
                            IF g = "g1" THEN <<"g2", "g3", "h1", "h2">> ELSE <<"h2">>]
    /\ ansible_hosts = <<"h1", "h2">>

(* C16: the `groupvars` branch is dead: a step at a `groupvars` key changes  *)
(* none of the four tables and nothing else of the walk, which stays in the *)
(* same call and goes on to the remaining keys of the node.                 *)
C16_GroupvarsNoEffect ==
    [][(ipc = "main" /\ AtKey(Top) /\ Item(Top).key = "groupvars") =>
          /\ Tables' = Tables
          /\ ipc' = "main"
          /\ Len(stack') = Len(stack)
          /\ stack'[Len(stack')].group_name = Top.group_name
          /\ stack'[Len(stack')].i \in {Top.i, Top.i + 1}
      ]_<<ivars, svars, xvars>>

----------------------------------------------------------------------------
(* site-checker.py.  Text that the program builds or takes apart is a       *)
(* sequence of characters; keys, ports and paths, which it only passes on   *)
(* or compares, are strings.                                                *)

MaxServers == 2     \* longest record['servers'] list
MaxTrue == 2        \* most check-... flags true in one record
MaxArgs == 2        \* most command-line arguments

Dot == <<".">>
Dash == <<"-">>
Space == <<" ">>
StartsWith(s, p) == Len(s) >= Len(p) /\ SubSeq(s, 1, Len(p)) = p

(* str.strip("\n") *)
RECURSIVE StripLeft(_)
StripLeft(s) == IF Len(s) > 0 /\ s[1] = "\n" THEN StripLeft(Tail(s)) ELSE s
RECURSIVE StripRight(_)
StripRight(s) ==
    IF Len(s) > 0 /\ s[Len(s)] = "\n" THEN StripRight(SubSeq(s, 1, Len(s) - 1)) ELSE s
Strip(s) == StripRight(StripLeft(s))

(* re.split on an alternation of literal separators, no two of which can    *)
(* match at the same place: the pieces between the matches, left to right.  *)
RECURSIVE SplitFrom(_, _, _)
SplitFrom(s, seps, piece) ==
    IF s = <<>> THEN <<piece>>
    ELSE IF \E sep \in seps : StartsWith(s, sep)
         THEN LET sep == CHOOSE x \in seps : StartsWith(s, x)
              IN  <<piece>> \o SplitFrom(SubSeq(s, Len(sep) + 1, Len(s)), seps, <<>>)
         ELSE SplitFrom(Tail(s), seps, Append(piece, s[1]))
Split(s, seps) == SplitFrom(s, seps, <<>>)
BarOrDash == {<<"|">>, <<" ", "-", " ">>}      \* '\|| - '
Bar == {<<"|">>}                               \* '\|'

HTTP_OK == <<"H", "T", "T", "P", " ", "O", "K", ":">>
HTTP_WARN == <<"H", "T", "T", "P", " ", "W", "A", "R", "N", ":">>
CRITICAL == <<"C", "R", "I", "T", "I", "C", "A", "L">>
PASS == <<"P", "A", "S", "S">>
FAIL == <<"F", "A", "I", "L">>
Comma == <<",", " ">>

(* What a probe function hands back: its status text, or the exception that *)
(* left it.                                                                 *)
Returned(status) == [exc |-> "", status |-> status]
Raised(e) == [exc |-> e, status |-> <<>>]
IsPass(r) == r.exc = "" /\ StartsWith(r.status, PASS)       \* re.match('^PASS', ...)

(* lines 138-141 (and 149-152, 216-219, 227-230, 295-298, 302-305) *)
StatusCode(output) ==
    LET words == Split(Split(output, BarOrDash)[1], {Space})
    IN  IF Len(words) >= 4 THEN words[4] ELSE output

(* lines 142-147 and 153-158; lines 220-225 and 231-236 with digit "3" *)
CodeStatus(output, digit, verbose) ==
    LET output_split == Split(output, BarOrDash)
        code == StatusCode(output)
        word == IF StartsWith(code, <<digit>>) THEN PASS ELSE FAIL
    IN  IF verbose
        THEN IF Len(output_split) < 2 THEN Raised("IndexError")
             ELSE Returned(word \o Space \o code \o Comma \o output_split[2])
        ELSE Returned(word \o Space \o code)

(* lines 159-169 and 237-247 *)
FailStatus(output, verbose) ==
    IF StartsWith(output, CRITICAL)
    THEN IF verbose THEN Returned(FAIL \o Space \o Split(output, Bar)[1])
         ELSE Returned(FAIL \o Space \o Split(output, BarOrDash)[1])
    ELSE IF verbose THEN Returned(FAIL \o Space \o output)
         ELSE Returned(FAIL \o Space \o Split(output, BarOrDash)[1])

(* check_http_str, lines 132-172, on what the check_http command printed *)
check_http_str(raw, verbose) ==
    LET output == Strip(raw)
    IN  IF StartsWith(output, HTTP_OK) \/ StartsWith(output, HTTP_WARN)
        THEN CodeStatus(output, "2", verbose)
        ELSE FailStatus(output, verbose)

(* check_http_redirect, lines 212-250 *)
check_http_redirect(raw, verbose) ==
    LET output == Strip(raw)
    IN  IF StartsWith(output, HTTP_OK) \/ StartsWith(output, HTTP_WARN)
        THEN CodeStatus(output, "3", verbose)
        ELSE FailStatus(output, verbose)

(* check_http_cmd, lines 291-320: the status code is not looked at *)
check_http_cmd(raw, verbose) ==
    LET output == Strip(raw)
        output_split == Split(output, BarOrDash)
    IN  IF StartsWith(output, HTTP_OK) \/ StartsWith(output, HTTP_WARN)
        THEN IF verbose
             THEN IF Len(output_split) < 2 THEN Raised("IndexError")
                  ELSE Returned(PASS \o Space \o StatusCode(output) \o Comma \o output_split[2])
             ELSE Returned(PASS \o Space \o StatusCode(output))
        ELSE IF StartsWith(output, CRITICAL)
        THEN IF verbose THEN Returned(FAIL \o Space \o output)
             ELSE IF Len(output_split) < 2 THEN Raised("IndexError")
                  ELSE Returned(FAIL \o Space \o output_split[1] \o Space \o output_split[2])
        ELSE Returned(FAIL \o Space \o output)

(* What the check_http command can print. *)
Outputs ==
    {<<"H", "T", "T", "P", " ", "O", "K", ":", " ", "H", "T", "T", "P", "/", "1", ".", "1", " ", "2", "0", "0", " ", "O", "K", " ", "-", " ", "9", " ", "b", "y", "t", "e", "s", "|", "t", "=", "1", "\n">>,
     <<"H", "T", "T", "P", " ", "O", "K", ":", " ", "H", "T", "T", "P", "/", "1", ".", "1", " ", "3", "0", "1", " ", "M", "o", "v", "e", "d", " ", "-", " ", "9", " ", "b", "y", "t", "e", "s", "|", "t", "=", "1", "\n">>,
     <<"H", "T", "T", "P", " ", "W", "A", "R", "N", ":", " ", "H", "T", "T", "P", "/", "1", ".", "1", " ", "4", "0", "4", " ", "N", "F", " ", "-", " ", "9", " ", "b", "y", "t", "e", "s", "|", "t", "=", "1", "\n">>,
     <<"H", "T", "T", "P", " ", "O", "K", ":", " ", "2", "0", "0", "\n">>,
     <<"C", "R", "I", "T", "I", "C", "A", "L", " ", "-", " ", "S", "o", "c", "k", "e", "t", " ", "t", "i", "m", "e", "o", "u", "t", "\n">>,
     <<"C", "R", "I", "T", "I", "C", "A", "L", "\n">>,
     <<"H", "T", "T", "P", " ", "C", "R", "I", "T", "I", "C", "A", "L", ":", " ", "H", "T", "T", "P", "/", "1", ".", "1", " ", "5", "0", "0", " ", "E", "r", "r", " ", "-", " ", "9", " ", "b", "y", "t", "e", "s", "|", "t", "=", "1", "\n">>,
     <<>>}

----------------------------------------------------------------------------
(* The site catalog (sites.yml) and the command line. *)

FlagOrder ==
    <<"check-string", "check-redirect", "check-http-redir", "check-http", "check-https",
      "check-status", "check-info", "check-php", "check-lb", "check-servers",
      "check-health">>
Flags == {FlagOrder[x] : x \in DOMAIN FlagOrder}
Gated == {"path", "redirect", "lb", "servers", "health"}
Tags == <<"dev", "tst", "stg", "pre", "prd", "public", "internal">>

T_dev == <<"d", "e", "v">>
T_tst == <<"t", "s", "t">>
T_stg == <<"s", "t", "g">>
T_pre == <<"p", "r", "e">>
T_prd == <<"p", "r", "d">>
T_public == <<"p", "u", "b", "l", "i", "c">>
T_internal == <<"i", "n", "t", "e", "r", "n", "a", "l">>
TagText(t) ==
    CASE t = "dev" -> T_dev [] t = "tst" -> T_tst [] t = "stg" -> T_stg
      [] t = "pre" -> T_pre [] t = "prd" -> T_prd [] t = "public" -> T_public
      [] t = "internal" -> T_internal

N_app == <<"a", "p", "p">>
N_web == <<"w", "e", "b">>
D_xcom == <<"x", ".", "c", "o", "m">>
H_web1 == <<"w", "e", "b", "1">>
H_lb == <<"l", "b", ".", "x", ".", "c", "o", "m">>
Suffixes == {<<"1">>, <<"2">>}

(* An environment record: the flags in `on` true, the other flags false,    *)
(* the keys in `missing` absent.                                            *)
Rec(on, missing, host, servers) ==
    [k \in (Flags \cup Gated \cup {"host", "domain"}) \ missing |->
        CASE k \in Flags -> k \in on
          [] k = "host" -> host
          [] k = "domain" -> D_xcom
          [] k = "path" -> "/index"
          [] k = "redirect" -> "/new"
          [] k = "lb" -> H_lb
          [] k = "servers" -> servers
          [] k = "health" -> "/health"]

SubsetsUpTo(S, n) == {x \in SUBSET S : Cardinality(x) <= n}
ServerLists == SeqsUpTo(Suffixes, MaxServers)

(* every choice of at most MaxTrue true flags, with all or none of the gated *)
(* keys; every flag alone, with at most one gated key absent                *)
PlanRecs ==
    {Rec(on, {"host"} \cup gone, <<>>, <<<<"1">>, <<"2">>>>) :
        on \in SubsetsUpTo(Flags, MaxTrue), gone \in {{}, Gated}}
    \cup {Rec(on, {"host"} \cup gone, <<>>, <<<<"1">>, <<"2">>>>) :
            on \in SubsetsUpTo(Flags, 1), gone \in SubsetsUpTo(Gated, 1)}
(* the three shapes of `host`, with and without `domain` *)
HostRecs ==
    {Rec(on, gone, host, <<<<"1">>>>) :
        on \in {{}, {"check-servers"}, {"check-https"}},
        gone \in {{}, {"host"}, {"domain"}, {"host", "domain"}},
        host \in {<<>>, H_web1}}
(* one required key absent *)
MissingRecs ==
    UNION {{Rec(on, {"host", k}, <<>>, <<<<"1">>>>) :
              on \in SubsetsUpTo(Flags \ {k}, 1)} : k \in Flags \cup {"domain"}}
(* every `servers` list *)
ServerRecs ==
    {Rec(on, {"host"}, <<>>, sv) :
        on \in {{"check-servers"}, {"check-servers", "check-health"},
                {"check-lb", "check-servers"}, Flags},
        sv \in ServerLists}
Records == PlanRecs \cup HostRecs \cup MissingRecs \cup ServerRecs

SoundRecs ==
    {Rec({}, {"host"}, <<>>, <<>>),
     Rec({"check-https"}, {"host"}, <<>>, <<>>)}
PairRecs ==
    SoundRecs
    \cup {Rec({"check-https"}, {"host", "check-string"}, <<>>, <<>>),
          Rec({"check-http"}, {"host", "domain"}, <<>>, <<>>)}

OneRecord == {<<E(N_app, <<E(T_prd, r)>>)>> : r \in Records}
TwoRecords ==
    {<<E(N_app, <<E(T_dev, r), E(T_prd, q)>>)>> : r \in PairRecs, q \in PairRecs}
    \cup {<<E(N_app, <<E(T_prd, r)>>), E(N_web, <<E(T_public, q)>>)>> :
            r \in PairRecs, q \in SoundRecs}

Opt(o) == [o |-> o, s |-> <<>>]
SiteArg(name) == [o |-> "", s |-> name]
ArgChoices == {Opt("-v"), Opt("--dev"), Opt("--prd"), Opt("--list"), SiteArg(N_web)}
ArgLists == SeqsUpTo(ArgChoices, MaxArgs)

----------------------------------------------------------------------------
(* The argument loop and the check loop of site-checker.py. *)

Site == sites_data[site_i]
Envs == Site.val
prod_status == Envs[env_i].key
Record == Envs[env_i].val
Verbose == conf.VERBOSE # 0
KeyErrorEager(record, key) == (Flags \cup {key}) \ DOMAIN record # {}
KeyError(record, key) == key \notin DOMAIN record
(* lines 509, 515, 559, 564, 580: the second test of a gated check *)
CarriesNothing(record, key) == FALSE
Carries(record, key) == key \in DOMAIN record
(* lines 508-509, 514-515, 558-559, 563-564, 579-580: flag, then key *)
ConsultedByKey(record, flag, key) == Carries(record, key)
Consulted(record, flag, key) == record[flag] = TRUE /\ Carries(record, key)

(* the flag after a flag, in the order of lines 507-581 *)
AfterHealthFirst(flag) ==
    CASE flag = "check-lb" -> "check-health"
      [] flag = "check-health" -> "check-servers"
      [] flag = "check-servers" -> "end"
      [] OTHER -> LET x == CHOOSE y \in DOMAIN FlagOrder : FlagOrder[y] = flag
                  IN  FlagOrder[x + 1]
After(flag) ==
    LET x == CHOOSE y \in DOMAIN FlagOrder : FlagOrder[y] = flag
    IN  IF x = Len(FlagOrder) THEN "end" ELSE FlagOrder[x + 1]

(* lines 474-483 *)
BuildHostnameNoEmpty(site, status, record) ==
    IF "host" \in DOMAIN record
    THEN [hostname |-> record["host"] \o Dot \o record["domain"],
          short_hostname |-> record["host"]]
    ELSE [hostname |-> site \o Dash \o status \o Dot \o record["domain"],
          short_hostname |-> site \o Dash \o status]
BuildHostname(site, status, record) ==
    IF "host" \in DOMAIN record
    THEN IF record["host"] = <<>>
         THEN [hostname |-> record["domain"], short_hostname |-> record["domain"]]
         ELSE [hostname |-> record["host"] \o Dot \o record["domain"],
               short_hostname |-> record["host"]]
    ELSE [hostname |-> site \o Dash \o status \o Dot \o record["domain"],
          short_hostname |-> site \o Dash \o status]

(* line 566 *)
ServerName(short, number, record) == short \o number \o Dot \o record["domain"]

(* lines 447-450 *)
CheckThisSite(site) ==
    IF Len(site_input_list) > 0 THEN InList(site, site_input_list) ELSE TRUE

(* line 466: Python's `or` yields its first operand that is not 0 *)
RECURSIVE FirstSet(_, _)
FirstSet(only, x) ==
    IF x > Len(Tags) THEN 0
    ELSE IF only[Tags[x]] # 0 THEN only[Tags[x]] ELSE FirstSet(only, x + 1)

(* lines 456-466 *)
CheckThisProdStatus(only, status) ==
    \/ \E x \in DOMAIN Tags : only[Tags[x]] = 1 /\ status = TagText(Tags[x])
    \/ FirstSet(only, 1) # 1

(* one request handed to check_http (fn names the caller) or to wget *)
Req(kind, fn, host, ip, port, path, server) ==
    [site |-> site_i, env |-> env_i, kind |-> kind, fn |-> fn, host |-> host,
     ip |-> ip, port |-> port, path |-> path, server |-> server]
Wget(kind, host, port, path, server) ==
    Req(kind, "wget_match_str", host, <<>>, port, path, server)

(* The step ends: with the next position, or with an uncaught exception. *)
Goto(reqs, next) ==
    /\ requests' = requests \o reqs
    /\ spc' = next
    /\ exc' = exc
CrashSwallowed(reqs, e) ==
    /\ requests' = requests \o reqs
    /\ spc' = "end"
    /\ exc' = exc
Crash(reqs, e) ==
    /\ requests' = requests \o reqs
    /\ spc' = "crashed"
    /\ exc' = e
(* a step that ran one probe function, with result r, then the requests more *)
Probed(req, r, more, next) ==
    IF r.exc # "" THEN Crash(<<req>>, r.exc) ELSE Goto(<<req>> \o more, next)

Same == UNCHANGED <<arglist, conf, site_input_list, sites_data, site_i, env_i,
                    server_i, hostname, short_hostname, visited, completed>>

(* lines 396-411, one argument *)
ParseArg ==
    /\ UNCHANGED <<ivars, xvars>>
    /\ spc = "args" /\ arglist # <<>>
    /\ LET a == Head(arglist) IN
        /\ conf' =
             IF a.o = "-v" THEN [conf EXCEPT !.VERBOSE = @ + 1]
             ELSE IF a.o = "--list" THEN [conf EXCEPT !.MODE = "LIST"]
             ELSE IF a.o = "--list-all" THEN [conf EXCEPT !.MODE = "LISTALL"]
             ELSE IF \E x \in DOMAIN Tags : a.o = "--" \o Tags[x]
                  THEN LET t == Tags[CHOOSE x \in DOMAIN Tags : a.o = "--" \o Tags[x]]
                       IN  [conf EXCEPT !.only[t] = @ + 1]
             ELSE conf
        /\ site_input_list' =
             IF a.o = "" THEN Append(site_input_list, a.s) ELSE site_input_list
    /\ arglist' = Tail(arglist)
    /\ UNCHANGED <<sites_data, site_i, env_i, server_i, hostname, short_hostname, spc,
                   exc, requests, visited, completed>>

(* lines 419-443: the list modes print names and the program ends *)
Begin ==
    /\ UNCHANGED <<ivars, xvars>>
    /\ spc = "args" /\ arglist = <<>>
    /\ spc' = IF conf.MODE = "CHECK" THEN "site" ELSE "done"
    /\ UNCHANGED <<arglist, conf, site_input_list, sites_data, site_i, env_i, server_i,
                   hostname, short_hostname, exc, requests, visited, completed>>

(* lines 444-455 *)
EnterSite ==
    /\ UNCHANGED <<ivars, xvars>>
    /\ spc = "site" /\ site_i <= Len(sites_data) /\ CheckThisSite(Site.key)
    /\ spc' = "env" /\ env_i' = 1
    /\ UNCHANGED <<arglist, conf, site_input_list, sites_data, site_i, server_i,
                   hostname, short_hostname, exc, requests, visited, completed>>
SkipSite ==
    /\ UNCHANGED <<ivars, xvars>>
    /\ spc = "site" /\ site_i <= Len(sites_data) /\ ~CheckThisSite(Site.key)
    /\ site_i' = site_i + 1
    /\ UNCHANGED <<arglist, conf, site_input_list, sites_data, env_i, server_i,
                   hostname, short_hostname, spc, exc, requests, visited, completed>>
EndSites ==
    /\ UNCHANGED <<ivars, xvars>>
    /\ spc = "site" /\ site_i > Len(sites_data)
    /\ spc' = "done"
    /\ UNCHANGED <<arglist, conf, site_input_list, sites_data, site_i, env_i, server_i,
                   hostname, short_hostname, exc, requests, visited, completed>>

(* lines 455-470 *)
EnterEnv ==
    /\ UNCHANGED <<ivars, xvars>>
    /\ spc = "env" /\ env_i <= Len(Envs) /\ CheckThisProdStatus(conf.only, prod_status)
    /\ spc' = "host"
    /\ visited' = visited \cup {<<site_i, env_i>>}
    /\ UNCHANGED <<arglist, conf, site_input_list, sites_data, site_i, env_i, server_i,
                   hostname, short_hostname, exc, requests, completed>>
SkipEnv ==
    /\ UNCHANGED <<ivars, xvars>>
    /\ spc = "env" /\ env_i <= Len(Envs) /\ ~CheckThisProdStatus(conf.only, prod_status)
    /\ env_i' = env_i + 1
    /\ UNCHANGED <<arglist, conf, site_input_list, sites_data, site_i, server_i,
                   hostname, short_hostname, spc, exc, requests, visited, completed>>
EndEnvs ==
    /\ UNCHANGED <<ivars, xvars>>
    /\ spc = "env" /\ env_i > Len(Envs)
    /\ spc' = "site" /\ site_i' = site_i + 1
    /\ UNCHANGED <<arglist, conf, site_input_list, sites_data, env_i, server_i,
                   hostname, short_hostname, exc, requests, visited, completed>>

(* lines 473-485: every branch reads record['domain'] *)
Hostname ==
    /\ UNCHANGED <<ivars, xvars>>
    /\ spc = "host"
    /\ IF KeyError(Record, "domain")
       THEN Crash(<<>>, "KeyError") /\ UNCHANGED <<hostname, short_hostname>>
       ELSE /\ Goto(<<>>, "dns")
            /\ hostname' = BuildHostname(Site.key, prod_status, Record).hostname
            /\ short_hostname' = BuildHostname(Site.key, prod_status, Record).short_hostname
    /\ UNCHANGED <<arglist, conf, site_input_list, sites_data, site_i, env_i, server_i,
                   visited, completed>>

(* lines 487-505: the query answers, answers nothing, or raises *)
DnsLookup ==
    /\ UNCHANGED <<ivars, xvars>>
    /\ spc = "dns"
    /\ \E answer \in {"records", "none", "raise"} :
          IF answer = "raise" THEN Crash(<<>>, "DNSException")
          ELSE Goto(<<>>, FlagOrder[1])
    /\ Same

(* lines 507-511 *)
CheckString ==
    /\ UNCHANGED <<ivars, xvars>>
    /\ spc = "check-string"
    /\ IF KeyError(Record, "check-string") THEN Crash(<<>>, "KeyError")
       ELSE IF Consulted(Record, "check-string", "path")
       THEN \E o \in Outputs :
              Probed(Req("page-string", "check_http_str", hostname, hostname, "443",
                         Record["path"], 0),
                     check_http_str(o, Verbose), <<>>, After("check-string"))
       ELSE Goto(<<>>, After("check-string"))
    /\ Same

(* lines 513-517 *)
CheckRedirect ==
    /\ UNCHANGED <<ivars, xvars>>
    /\ spc = "check-redirect"
    /\ IF KeyError(Record, "check-redirect") THEN Crash(<<>>, "KeyError")
       ELSE IF Consulted(Record, "check-redirect", "redirect")
       THEN \E o \in Outputs :
              Probed(Req("redirect", "check_http_redirect", hostname, hostname, "443",
                         "/", 0),
                     check_http_redirect(o, Verbose), <<>>, After("check-redirect"))
       ELSE Goto(<<>>, After("check-redirect"))
    /\ Same

(* lines 519-521 *)
CheckHttpRedir ==
    /\ UNCHANGED <<ivars, xvars>>
    /\ spc = "check-http-redir"
    /\ IF KeyError(Record, "check-http-redir") THEN Crash(<<>>, "KeyError")
       ELSE IF Record["check-http-redir"] = TRUE
       THEN \E o \in Outputs :
              Probed(Req("http-redirect", "check_http_redirect", hostname, hostname,
                         "80", "/", 0),
                     check_http_redirect(o, Verbose), <<>>, After("check-http-redir"))
       ELSE Goto(<<>>, After("check-http-redir"))
    /\ Same

(* lines 523-525 *)
CheckHttp ==
    /\ UNCHANGED <<ivars, xvars>>
    /\ spc = "check-http"
    /\ IF KeyError(Record, "check-http") THEN Crash(<<>>, "KeyError")
       ELSE IF Record["check-http"] = TRUE
       THEN \E o \in Outputs :
              Probed(Req("http-check", "check_http_str", hostname, hostname, "80",
                         "/check", 0),
                     check_http_str(o, Verbose), <<>>, After("check-http"))
       ELSE Goto(<<>>, After("check-http"))
    /\ Same

(* lines 526-527 *)
CheckHttps ==
    /\ UNCHANGED <<ivars, xvars>>
    /\ spc = "check-https"
    /\ IF KeyError(Record, "check-https") THEN Crash(<<>>, "KeyError")
       ELSE IF Record["check-https"] = TRUE
       THEN \E o \in Outputs :
              Probed(Req("https-check", "check_http_str", hostname, hostname, "443",
                         "/check", 0),
                     check_http_str(o, Verbose), <<>>, After("check-https"))
       ELSE Goto(<<>>, After("check-https"))
    /\ Same

(* lines 529-539 *)
CheckStatus ==
    /\ UNCHANGED <<ivars, xvars>>
    /\ spc = "check-status"
    /\ IF KeyError(Record, "check-status") THEN Crash(<<>>, "KeyError")
       ELSE IF Record["check-status"] = TRUE
       THEN \E o \in Outputs :
              LET r == check_http_cmd(o, Verbose) IN
              Probed(Req("server-status", "check_http_cmd", hostname, hostname, "443",
                         "/server-status", 0),
                     r,
                     IF IsPass(r)
                     THEN <<Wget("server-status", hostname, "80", "/server-status", 0)>>
                     ELSE <<>>,
                     After("check-status"))
       ELSE Goto(<<>>, After("check-status"))
    /\ Same

(* lines 541-543 *)
CheckInfo ==
    /\ UNCHANGED <<ivars, xvars>>
    /\ spc = "check-info"
    /\ IF KeyError(Record, "check-info") THEN Crash(<<>>, "KeyError")
       ELSE IF Record["check-info"] = TRUE
       THEN \E o \in Outputs :
              Probed(Req("server-info", "check_http_cmd", hostname, hostname, "443",
                         "/server-info", 0),
                     check_http_cmd(o, Verbose), <<>>, After("check-info"))
       ELSE Goto(<<>>, After("check-info"))
    /\ Same

(* lines 545-555 *)
CheckPhp ==
    /\ UNCHANGED <<ivars, xvars>>
    /\ spc = "check-php"
    /\ IF KeyError(Record, "check-php") THEN Crash(<<>>, "KeyError")
       ELSE IF Record["check-php"] = TRUE
       THEN \E o \in Outputs :
              LET r == check_http_str(o, Verbose) IN
              Probed(Req("php-info", "check_http_str", hostname, hostname, "443",
                         "/php-info", 0),
                     r,
                     IF IsPass(r)
                     THEN <<Wget("php-info", hostname, "80", "/php-info", 0)>>
                     ELSE <<>>,
                     After("check-php"))
       ELSE Goto(<<>>, After("check-php"))
    /\ Same

(* lines 557-560 *)
CheckLb ==
    /\ UNCHANGED <<ivars, xvars>>
    /\ spc = "check-lb"
    /\ IF KeyError(Record, "check-lb") THEN Crash(<<>>, "KeyError")
       ELSE IF Consulted(Record, "check-lb", "lb")
       THEN \E o \in Outputs :
              Probed(Req("load-balancer", "check_http_cmd", hostname, Record["lb"],
                         "443", "/check", 0),
                     check_http_cmd(o, Verbose), <<>>, After("check-lb"))
       ELSE Goto(<<>>, After("check-lb"))
    /\ Same

(* lines 562-565: into the loop over record['servers'], or past it *)
CheckServers ==
    /\ UNCHANGED <<ivars, xvars>>
    /\ spc = "check-servers"
    /\ IF KeyError(Record, "check-servers")
       THEN Crash(<<>>, "KeyError") /\ server_i' = server_i
       ELSE IF Consulted(Record, "check-servers", "servers")
       THEN Goto(<<>>, "server") /\ server_i' = 1
       ELSE Goto(<<>>, After("check-servers")) /\ server_i' = server_i
    /\ UNCHANGED <<arglist, conf, site_input_list, sites_data, site_i, env_i,
                   hostname, short_hostname, visited, completed>>

(* lines 565-576, one server: /check, /server-status, and on PASS a fetch   *)
(* of /server-status that line 570 sends to hostname                        *)
CheckServer ==
    /\ UNCHANGED <<ivars, xvars>>
    /\ spc = "server" /\ server_i <= Len(Record["servers"])
    /\ LET number == Record["servers"][server_i]
           server_name == ServerName(short_hostname, number, Record)
           check == Req("per-server", "check_http_str", server_name, server_name, "80",
                        "/check", server_i)
           status == Req("per-server", "check_http_cmd", server_name, server_name, "80",
                         "/server-status", server_i)
       IN  \E o1 \in Outputs, o2 \in Outputs :
             LET r1 == check_http_str(o1, Verbose)
                 r2 == check_http_cmd(o2, Verbose)
             IN  IF r1.exc # "" THEN Crash(<<check>>, r1.exc)
                 ELSE Probed(status, r2,
                             IF IsPass(r2)
                             THEN <<Wget("per-server", hostname, "80", "/server-status",
                                         server_i)>>
                             ELSE <<>>,
                             "server")
    /\ IF spc' = "server" THEN server_i' = server_i + 1 ELSE server_i' = server_i
    /\ UNCHANGED <<arglist, conf, site_input_list, sites_data, site_i, env_i,
                   hostname, short_hostname, visited, completed>>
EndServers ==
    /\ UNCHANGED <<ivars, xvars>>
    /\ spc = "server" /\ server_i > Len(Record["servers"])
    /\ Goto(<<>>, After("check-servers"))
    /\ Same

(* lines 578-581 *)
CheckHealth ==
    /\ UNCHANGED <<ivars, xvars>>
    /\ spc = "check-health"
    /\ IF KeyError(Record, "check-health") THEN Crash(<<>>, "KeyError")
       ELSE IF Consulted(Record, "check-health", "health")
       THEN \E o \in Outputs :
              Probed(Req("health", "check_http_cmd", hostname, hostname, "443",
                         Record["health"], 0),
                     check_http_cmd(o, Verbose), <<>>, After("check-health"))
       ELSE Goto(<<>>, After("check-health"))
    /\ Same

(* line 455: the body of the loop is through, on to the next environment *)
EndRecord ==
    /\ UNCHANGED <<ivars, xvars>>
    /\ spc = "end"
    /\ spc' = "env" /\ env_i' = env_i + 1
    /\ completed' = completed \cup {<<site_i, env_i>>}
    /\ UNCHANGED <<arglist, conf, site_input_list, sites_data, site_i, server_i,
                   hostname, short_hostname, exc, requests, visited>>

InitSite ==
    /\ IdleInv /\ IdleExec
    /\ \E in \in (OneRecord \X {<<>>, <<Opt("-v")>>}) \cup (TwoRecords \X ArgLists) :
          sites_data = in[1] /\ arglist = in[2]
    /\ conf = [VERBOSE |-> 0, MODE |-> "CHECK",
               only |-> [x \in {Tags[y] : y \in DOMAIN Tags} |-> 0]]
    /\ site_input_list = <<>>
    /\ site_i = 1
    /\ env_i = 1
    /\ server_i = 1
    /\ hostname = <<>>
    /\ short_hostname = <<>>
    /\ spc = "args"
    /\ exc = ""
    /\ requests = <<>>
    /\ visited = {}
    /\ completed = {}

NextSite ==
    \/ ParseArg
    \/ Begin
    \/ EnterSite
    \/ SkipSite
    \/ EndSites
    \/ EnterEnv
    \/ SkipEnv
    \/ EndEnvs
    \/ Hostname
    \/ DnsLookup
    \/ CheckString
    \/ CheckRedirect
    \/ CheckHttpRedir
    \/ CheckHttp
    \/ CheckHttps
    \/ CheckStatus
    \/ CheckInfo
    \/ CheckPhp
    \/ CheckLb
    \/ CheckServers
    \/ CheckServer
    \/ EndServers
    \/ CheckHealth
    \/ EndRecord


(* One call of a check_http_... function on one output of the command. *)
(* The outputs: a first word, a status line, and a tail.                *)
OutputHeads ==
    {HTTP_OK, HTTP_WARN, CRITICAL,
     <<"H", "T", "T", "P", " ", "C", "R", "I", "T", "I", "C", "A", "L", ":">>,
     <<"c", "o", "n", "n", "e", "c", "t", " ", "t", "o", " ", "a", "d", "d", "r", "e", "s", "s", " ", "1", ".", "2", ".", "3", ".", "4">>}
OutputCodes ==
    {<<" ", "H", "T", "T", "P", "/", "1", ".", "1", " ", "2", "0", "0", " ", "O", "K">>,
     <<" ", "H", "T", "T", "P", "/", "1", ".", "1", " ", "3", "0", "1", " ", "M", "o", "v", "e", "d">>,
     <<" ", "H", "T", "T", "P", "/", "1", ".", "1", " ", "4", "0", "4", " ", "N", "F">>,
     <<" ", "H", "T", "T", "P", "/", "1", ".", "1", " ", "5", "0", "0", " ", "E", "r", "r">>,
     <<" ", "t", "i", "m", "e", "o", "u", "t">>}
OutputTails ==
    {<<>>,
     <<" ", "-", " ", "9", " ", "b", "y", "t", "e", "s", "|", "t", "=", "1", "\n">>,
     <<"|", "t", "=", "1">>}
ExecOutputs == Outputs \cup {h \o c \o t : h \in OutputHeads, c \in OutputCodes, t \in OutputTails}

CallCheckHttpStr ==
    /\ UNCHANGED <<ivars, svars>>
    /\ executor = ""
    /\ executor' = "check_http_str"
    /\ result' = check_http_str(cmd_output, Verbose)
    /\ UNCHANGED cmd_output
CallCheckHttpRedirect ==
    /\ UNCHANGED <<ivars, svars>>
    /\ executor = ""
    /\ executor' = "check_http_redirect"
    /\ result' = check_http_redirect(cmd_output, Verbose)
    /\ UNCHANGED cmd_output
CallCheckHttpCmd ==
    /\ UNCHANGED <<ivars, svars>>
    /\ executor = ""
    /\ executor' = "check_http_cmd"
    /\ result' = check_http_cmd(cmd_output, Verbose)
    /\ UNCHANGED cmd_output

InitExec ==
    /\ IdleInv
    /\ arglist = <<>> /\ site_input_list = <<>> /\ sites_data = <<>>
    /\ site_i = 1 /\ env_i = 1 /\ server_i = 1 /\ hostname = <<>>
    /\ short_hostname = <<>> /\ spc = "idle" /\ exc = "" /\ requests = <<>>
    /\ visited = {} /\ completed = {}
    /\ \E v \in 0..1 :
          conf = [VERBOSE |-> v, MODE |-> "CHECK",
                  only |-> [x \in {Tags[y] : y \in DOMAIN Tags} |-> 0]]
    /\ cmd_output \in ExecOutputs
    /\ executor = ""
    /\ result = <<>>

NextExec ==
    \/ CallCheckHttpStr
    \/ CallCheckHttpRedirect
    \/ CallCheckHttpCmd

SpecInv == InitInv /\ [][NextInv]_<<ivars, svars, xvars>>
SpecSite == InitSite /\ [][NextSite]_<<ivars, svars, xvars>>
SpecExec == InitExec /\ [][NextExec]_<<ivars, svars, xvars>>

----------------------------------------------------------------------------
(* Properties of the site checker. *)

RecordAt(p) == sites_data[p[1]].val[p[2]].val
SiteAt(p) == sites_data[p[1]].key
TagAt(p) == sites_data[p[1]].val[p[2]].key
Pairs == {p \in (DOMAIN sites_data) \X (1..2) : p[2] \in DOMAIN sites_data[p[1]].val}
ReqsOf(p) == SelectSeq(requests, LAMBDA r : r.site = p[1] /\ r.env = p[2])
Kinds(reqs) == [x \in DOMAIN reqs |-> reqs[x].kind]
IsPrefix(a, b) == Len(a) <= Len(b) /\ \A x \in DOMAIN a : a[x] = b[x]
Current == <<site_i, env_i>>
Before(p, q) == p[1] < q[1] \/ (p[1] = q[1] /\ p[2] < q[2])
Ended == spc \in {"done", "crashed"}

(* C4: for a record with `domain`, the hostname step always succeeds and    *)
(* sets the two names by exactly one of three cases: host non-empty gives   *)
(* host.domain and host; host empty gives domain and domain; host absent    *)
(* gives site-tag.domain and site-tag.                                      *)
C4_Names(site, tag, record) ==
    IF "host" \in DOMAIN record /\ record["host"] # <<>>
    THEN <<record["host"] \o <<".">> \o record["domain"], record["host"]>>
    ELSE IF "host" \in DOMAIN record
    THEN <<record["domain"], record["domain"]>>
    ELSE <<site \o <<"-">> \o tag \o <<".">> \o record["domain"], site \o <<"-">> \o tag>>
C4_HostnameResolution ==
    [][(spc = "host" /\ "domain" \in DOMAIN Record) =>
         /\ spc' = "dns"
         /\ <<hostname', short_hostname'>> = C4_Names(Site.key, prod_status, Record)
      ]_<<ivars, svars, xvars>>
C4_Witness ==
    /\ spc = "dns"
    /\ "host" \in DOMAIN Record /\ Record["host"] = <<>>
    /\ hostname = D_xcom /\ short_hostname = D_xcom

OnlyStringAndHttps(record) ==
    /\ Flags \subseteq DOMAIN record
    /\ \A f \in Flags : record[f] = (f \in {"check-string", "check-https"})

(* C5 as stated: a record with only check-string and check-https true,      *)
(* whatever optional keys it carries, gets exactly two probes, page-string  *)
(* then https /check.                                                       *)
C5_AlwaysTwoProbes ==
    \A p \in completed :
        OnlyStringAndHttps(RecordAt(p)) =>
            Kinds(ReqsOf(p)) = <<"page-string", "https-check">>
(* C5 amended: such a record gets page-string then https /check when it     *)
(* carries `path`, and the https /check probe alone when it does not; the   *)
(* probes issued so far are always a prefix of that plan, and are the whole *)
(* plan once the record is through.                                         *)
C5_Plan(record) ==
    IF "path" \in DOMAIN record
    THEN <<<<"page-string", "443", record["path"]>>, <<"https-check", "443", "/check">>>>
    ELSE <<<<"https-check", "443", "/check">>>>
C5_Issued(p) == [x \in DOMAIN ReqsOf(p) |->
                    <<ReqsOf(p)[x].kind, ReqsOf(p)[x].port, ReqsOf(p)[x].path>>]
C5_TwoProbesWithPath ==
    \A p \in visited :
        OnlyStringAndHttps(RecordAt(p)) =>
            /\ IsPrefix(C5_Issued(p), C5_Plan(RecordAt(p)))
            /\ p \in completed => C5_Issued(p) = C5_Plan(RecordAt(p))
C5_Witness ==
    \E p \in completed :
        /\ OnlyStringAndHttps(RecordAt(p))
        /\ "path" \in DOMAIN RecordAt(p)
        /\ Kinds(ReqsOf(p)) = <<"page-string", "https-check">>

(* C6: with check-servers true there is one per-server check per entry of   *)
(* record.servers, in that order, aimed at short_hostname + suffix + "." +  *)
(* domain, and every request made for a server entry goes to that server.   *)
C6_ServerName(p, x) ==
    C4_Names(SiteAt(p), TagAt(p), RecordAt(p))[2] \o RecordAt(p)["servers"][x]
        \o <<".">> \o RecordAt(p)["domain"]
C6_ServerReqs(p) == SelectSeq(ReqsOf(p), LAMBDA r : r.kind = "per-server")
C6_ServerChecks(p) == SelectSeq(C6_ServerReqs(p), LAMBDA r : r.path = "/check")
C6_PerServerRequests ==
    \A p \in visited :
        /\ \A x \in DOMAIN C6_ServerReqs(p) :
              C6_ServerReqs(p)[x].host = C6_ServerName(p, C6_ServerReqs(p)[x].server)
        /\ \A x \in DOMAIN C6_ServerChecks(p) : C6_ServerChecks(p)[x].server = x
        /\ p \in completed /\ C6_ServerReqs(p) # <<>> =>
              Len(C6_ServerChecks(p)) = Len(RecordAt(p)["servers"])

Steps == <<"host", "dns">> \o FlagOrder \o <<"end">>
StepNo(pc) ==
    LET at == IF pc = "server" THEN "check-servers" ELSE pc
    IN  CHOOSE x \in DOMAIN Steps : Steps[x] = at
Required == Flags \cup {"domain"}
Lacking(record) == Required \ DOMAIN record
NeedStep(key) == StepNo(IF key = "domain" THEN "host" ELSE key)
KindOf(flag) ==
    CASE flag = "check-string" -> "page-string"
      [] flag = "check-redirect" -> "redirect"
      [] flag = "check-http-redir" -> "http-redirect"
      [] flag = "check-http" -> "http-check"
      [] flag = "check-https" -> "https-check"
      [] flag = "check-status" -> "server-status"
      [] flag = "check-info" -> "server-info"
      [] flag = "check-php" -> "php-info"
      [] flag = "check-lb" -> "load-balancer"
      [] flag = "check-servers" -> "per-server"
      [] flag = "check-health" -> "health"

(* C7: a selected record that lacks a required flag key, or `domain`, is    *)
(* never finished: the run is either still at or before the step that needs *)
(* the key, or it has stopped with an error in that record; no probe of the *)
(* missing flag is issued and no step after it is taken.                    *)
C7_MissingKeyIsAnError ==
    \A p \in visited :
        \A k \in Lacking(RecordAt(p)) :
            /\ p \notin completed
            /\ p = Current
            /\ \/ spc = "crashed"
               \/ spc \in {Steps[x] : x \in DOMAIN Steps} \cup {"server"}
                    /\ StepNo(spc) <= NeedStep(k)
            /\ k \in Flags => \A x \in DOMAIN ReqsOf(p) : ReqsOf(p)[x].kind # KindOf(k)
            /\ \A x \in DOMAIN ReqsOf(p) :
                  \A f \in Flags : ReqsOf(p)[x].kind = KindOf(f) => StepNo(f) < NeedStep(k)
C7_Witness ==
    /\ spc = "crashed" /\ exc = "KeyError"
    /\ Current \in visited
    /\ "check-https" \in Lacking(Record)
    /\ "domain" \in DOMAIN Record
    /\ requests # <<>>

(* C8: a configuration error in one record does not abort the run: every    *)
(* selected pair after it in catalog order is still processed.              *)
Selected(p) ==
    CheckThisSite(SiteAt(p)) /\ CheckThisProdStatus(conf.only, TagAt(p))
C8_ErrorDoesNotAbort ==
    \A p \in visited :
        Lacking(RecordAt(p)) # {} /\ Ended =>
            \A q \in Pairs : Before(p, q) /\ Selected(q) => q \in visited

ClaimedOrder ==
    <<"page-string", "redirect", "http-redirect", "http-check", "https-check",
      "server-status", "server-info", "php-info", "load-balancer", "health",
      "per-server">>
CodeOrder == [x \in DOMAIN FlagOrder |-> KindOf(FlagOrder[x])]
Rank(order, kind) == CHOOSE x \in DOMAIN order : order[x] = kind
InOrder(reqs, order) ==
    \A x \in DOMAIN reqs : \A y \in DOMAIN reqs :
        x < y =>
          /\ Rank(order, reqs[x].kind) <= Rank(order, reqs[y].kind)
          /\ reqs[x].kind = "per-server" /\ reqs[y].kind = "per-server" =>
                reqs[x].server <= reqs[y].server

(* C10 as stated: the probes of a record come in the order page-string,     *)
(* redirect, http-redirect, http-check, https-check, server-status,         *)
(* server-info, php-info, load-balancer, health, per-server.                *)
C10_ClaimedProbeOrder == \A p \in visited : InOrder(ReqsOf(p), ClaimedOrder)
(* C10 amended: the probes of a record come in the order page-string,       *)
(* redirect, http-redirect, http-check, https-check, server-status,         *)
(* server-info, php-info, load-balancer, per-server, health, and the        *)
(* per-server probes follow the order of record.servers.                    *)
C10_ProbeOrder == \A p \in visited : InOrder(ReqsOf(p), CodeOrder)
C10_Witness ==
    \E p \in completed :
        /\ \E x \in DOMAIN ReqsOf(p) : ReqsOf(p)[x].kind = "health"
        /\ \E x \in DOMAIN ReqsOf(p) :
              ReqsOf(p)[x].kind = "per-server" /\ ReqsOf(p)[x].server = 2
        /\ \A k \in DOMAIN CodeOrder :
              \E x \in DOMAIN ReqsOf(p) : ReqsOf(p)[x].kind = CodeOrder[k]

(* C13: a transport failure of the HTTP or DNS collaborator (a CRITICAL     *)
(* output line of any shape, a DNS query that raises or answers nothing)    *)
(* becomes a FAIL line and never ends the run.  Without -v the executors    *)
(* subscript a split output only in the CRITICAL branch of check_http_cmd,  *)
(* so an IndexError of a run without -v comes from a CRITICAL line.         *)
C13_TransportFailureNeverAborts ==
    spc = "crashed" =>
        /\ exc # "DNSException"
        /\ exc = "IndexError" => Verbose

(* C14: each of the three executors classifies the output by one rule: for  *)
(* an output starting with HTTP OK: or HTTP WARN: the code is the 4th       *)
(* space-delimited token of the first segment and the result is PASS iff    *)
(* the code begins with 2 (3 for check_http_redirect), else FAIL; any other *)
(* output is FAIL; the result always begins with PASS or FAIL.              *)
C14_Code(out) ==
    LET words == Split(Split(out, BarOrDash)[1], {Space})
    IN  IF Len(words) >= 4 THEN words[4] ELSE <<>>
C14_Passes(out, digit) ==
    /\ StartsWith(out, HTTP_OK) \/ StartsWith(out, HTTP_WARN)
    /\ StartsWith(C14_Code(out), <<digit>>)
C14_OneRule ==
    executor \in {"check_http_str", "check_http_redirect", "check_http_cmd"} =>
        /\ result.exc = ""
        /\ StartsWith(result.status, PASS) \/ StartsWith(result.status, FAIL)
        /\ StartsWith(result.status, PASS) <=>
               C14_Passes(Strip(cmd_output),
                          IF executor = "check_http_redirect" THEN "3" ELSE "2")

(* C17: the gated keys are read only under their flag.  For each of the     *)
(* pairs (check-string, path), (check-lb, lb), (check-servers, servers),    *)
(* (check-health, health): when the flag is false, or true with the key     *)
(* absent, the step of that flag issues no probe and raises no error,       *)
(* whether the key is there or not, and the next flag is processed; such a  *)
(* record never has a probe of that flag.                                   *)
C17_Pairs ==
    {<<"check-string", "path">>, <<"check-lb", "lb">>,
     <<"check-servers", "servers">>, <<"check-health", "health">>}
C17_Off(record, g) ==
    g[1] \in DOMAIN record /\ (record[g[1]] = FALSE \/ g[2] \notin DOMAIN record)
C17_NoProbe ==
    \A p \in visited : \A g \in C17_Pairs :
        C17_Off(RecordAt(p), g) =>
            \A x \in DOMAIN ReqsOf(p) : ReqsOf(p)[x].kind # KindOf(g[1])
C17_Step ==
    \A g \in C17_Pairs :
        (spc = g[1] /\ C17_Off(Record, g)) =>
            /\ requests' = requests
            /\ exc' = exc
            /\ spc' = Steps[StepNo(g[1]) + 1]
C17_GatedKeys == []C17_NoProbe /\ [][C17_Step]_<<ivars, svars, xvars>>
(* check-string is true without `path`: no page-string probe, and the       *)
(* https /check probe of the later flag is issued                           *)
C17_Witness ==
    \E p \in completed :
        /\ RecordAt(p)["check-string"] = TRUE /\ "path" \notin DOMAIN RecordAt(p)
        /\ RecordAt(p)["check-https"] = TRUE
        /\ Kinds(ReqsOf(p)) = <<"https-check">>

(* C18: with no filter option (--dev ... --internal) every environment of a *)
(* selected site is checked; with at least one, given any number of times,  *)
(* an environment is checked if and only if its tag is one of those given.  *)
C18_Given == {t \in {Tags[y] : y \in DOMAIN Tags} : conf.only[t] > 0}
C18_EnvironmentFilter ==
    (spc = "done" /\ conf.MODE = "CHECK") =>
        \A p \in Pairs :
            CheckThisSite(SiteAt(p)) =>
                (p \in visited <=>
                    (C18_Given = {} \/ \E t \in C18_Given : TagAt(p) = TagText(t)))

(* C19: flags are looked up one at a time in the fixed order.  When the run *)
(* stops at the first missing flag key of a record, every probe due for a   *)
(* true flag before it has been issued (for check-servers one per entry of  *)
(* record.servers; none for a gated flag whose key is absent), and no probe *)
(* of the missing flag or of a later flag has: the record is not validated  *)
(* as a whole before its first probe.                                       *)
C19_GateOf(f) ==
    CASE f = "check-string" -> {"path"}
      [] f = "check-redirect" -> {"redirect"}
      [] f = "check-lb" -> {"lb"}
      [] f = "check-servers" -> {"servers"}
      [] f = "check-health" -> {"health"}
      [] OTHER -> {}
C19_FirstMissing(record) ==
    CHOOSE k \in Lacking(record) : \A m \in Lacking(record) : StepNo(k) <= StepNo(m)
C19_Issued(p, f) ==
    IF f = "check-servers"
    THEN \A n \in DOMAIN RecordAt(p)["servers"] :
            \E x \in DOMAIN ReqsOf(p) :
                ReqsOf(p)[x].kind = "per-server" /\ ReqsOf(p)[x].server = n
    ELSE \E x \in DOMAIN ReqsOf(p) : ReqsOf(p)[x].kind = KindOf(f)
C19_LazyLookup ==
    \A p \in visited :
        (/\ spc = "crashed" /\ exc = "KeyError"
         /\ "domain" \in DOMAIN RecordAt(p)
         /\ Lacking(RecordAt(p)) # {}) =>
            LET k == C19_FirstMissing(RecordAt(p)) IN
            \A f \in Flags :
                /\ (/\ StepNo(f) < StepNo(k)
                    /\ RecordAt(p)[f] = TRUE
                    /\ C19_GateOf(f) \subseteq DOMAIN RecordAt(p)) => C19_Issued(p, f)
                /\ StepNo(f) >= StepNo(k) =>
                      \A x \in DOMAIN ReqsOf(p) : ReqsOf(p)[x].kind # KindOf(f)
(* check-http is true and probed; the lookup of the missing check-info stops the run *)
C19_Witness ==
    /\ spc = "crashed" /\ exc = "KeyError"
    /\ Current \in visited
    /\ Lacking(Record) = {"check-info"}
    /\ Kinds(ReqsOf(Current)) = <<"http-check">>

====
